---- MODULE Spec2Model ----
(***************************************************************************)
(* Sakila search application: the query catalog (query.py), the connection *)
(* manager and popularity logger (dbmaster.py), the search flows           *)
(* (utils.py), the blocking dialogs (gui.py) and the main menu (main.py).  *)
(***************************************************************************)
EXTENDS Integers, Sequences, FiniteSets, TLC

VARIABLES
    pc,          \* where the interaction thread is blocked: main menu, a dialog, a table, ended
    connected,   \* DbMaster.connection is set and is_connected()
    cursorOpen,  \* DbMaster.cursor is set and has not been closed
    present,     \* film ids held by the film tables of the database
    tableExists, \* the popular_query table exists in the current database
    store,       \* committed rows of popular_query, in insertion order
    logged,      \* history: key -> number of insert_query_log calls that returned normally
    ctx,         \* local variables of the running flow
    trace,       \* what the running (or last) operation did, in order
    ret,         \* how the last operation ended
    before,      \* history: popular_query as the main loop last saw it
    nlogs,       \* number of direct insert_query_log calls so far
    database,    \* the configured database name (DB_NAME), the connection's current database
    sessions     \* per application instance: where its insert_query_log call stands

vars == <<pc, connected, cursorOpen, present, tableExists, store, logged, ctx, trace, ret, before,
          nlogs, database, sessions>>

----------------------------------------------------------------------------
(* Bounds of the model *)

\* longest text typed into the keyword entry
MaxKeyLen == 2

\* most direct calls of insert_query_log
MaxLogs == 3

----------------------------------------------------------------------------
(* Texts: a typed text is a sequence of characters *)

Chars == {" ", "a"}

RECURSIVE SeqsUpTo(_, _)
SeqsUpTo(S, n) ==
    IF n = 0 THEN {<<>>}
    ELSE LET shorter == SeqsUpTo(S, n - 1)
         IN  shorter \cup {Append(s, c) : s \in {t \in shorter : Len(t) = n - 1}, c \in S}

Texts == SeqsUpTo(Chars, MaxKeyLen)

\* the characters of a text as one string
RECURSIVE Join(_)
Join(s) == IF s = <<>> THEN "" ELSE Head(s) \o Join(Tail(s))

\* str.strip(): whitespace removed at both ends
RECURSIVE lstrip(_)
lstrip(s) == IF s # <<>> /\ Head(s) = " " THEN lstrip(Tail(s)) ELSE s

RECURSIVE rstrip(_)
rstrip(s) ==
    IF s # <<>> /\ s[Len(s)] = " " THEN rstrip(SubSeq(s, 1, Len(s) - 1)) ELSE s

\* the entry is read without .strip()
strip_missing(s) == s

strip(s) == rstrip(lstrip(s))

----------------------------------------------------------------------------
(* Python values handed over as params *)

PyTuple(items) == [type |-> "tuple", items |-> items]
PyList(items)  == [type |-> "list", items |-> items]
PyStr(s)       == [type |-> "str", items |-> IF s = "" THEN <<>> ELSE <<s>>]
PyInt(n)       == [type |-> "int", items |-> <<ToString(n)>>]
PyNone         == [type |-> "NoneType", items |-> <<>>]

\* bool(v)
Truthy(v) ==
    CASE v.type = "NoneType" -> FALSE
      [] v.type = "int"      -> v.items # <<"0">>
      [] OTHER               -> v.items # <<>>

\* isinstance(v, tuple)
IsTuple(v) == v.type = "tuple"

\* params or ()
OrEmptyTuple(v) == IF Truthy(v) THEN v ELSE PyTuple(<<>>)

----------------------------------------------------------------------------
(* Events of the trace *)

Ev(e, n, a) == [ev |-> e, name |-> n, args |-> a]

Msg(text)          == Ev("msg", text, <<>>)
Ask(text)          == Ev("ask", text, <<>>)
Stmt(name, params) == Ev("stmt", name, params)
Table(title)       == Ev("table", title, <<>>)
Detail             == Ev("detail", "Selected movie:", <<>>)
Log(t, x)          == Ev("log", t, <<x>>)
Raise(kind)        == Ev("raise", kind, <<>>)
\* the user's double click or <Return> on row i of a table
Selected(table, i) == Ev("select", table, <<ToString(i)>>)
\* an operation called by itself
Call(name, args)   == Ev("call", name, args)
\* mysql.connector.connect returned a connection
Opened(what)       == Ev("open", what, <<>>)
\* cursor.close() or connection.close() is called
Release(what)      == Ev("release", what, <<>>)
\* print(text)
Printed(text)      == Ev("print", text, <<>>)
\* root.quit(): the event loop ends
Quit               == Ev("quit", "root", <<>>)

----------------------------------------------------------------------------
(* error_handler.py *)

handle_error(error_type, error_message) ==
    <<Msg(error_type \o " occurred: " \o error_message)>>

Recommendation(error_type) ==
    CASE error_type = "Database Error" ->
             "Please check your database connection settings and try again."
      [] error_type = "Unexpected Error" ->
             "Please restart the application and try again. If the problem persists, contact support."
      [] OTHER -> "Please try again later."

handle_error_with_recommendation(error_type, error_message) ==
    <<Msg(error_type \o " occurred: " \o error_message
          \o "\n\nRecommendation: " \o Recommendation(error_type))>>

\* askyesno: yes returns, no raises RuntimeError(detailed_message)
\* the answer to "Do you want to continue?" is not looked at
handle_non_blocking_error_never_raises(error_type, error_message, yes) ==
    [ev  |-> <<Ask(error_type \o " occurred: " \o error_message
                   \o "\nDo you want to continue?")>>,
     exc |-> "none",
     err |-> ""]

handle_non_blocking_error(error_type, error_message, yes) ==
    LET detailed == error_type \o " occurred: " \o error_message
                    \o "\nDo you want to continue?"
    IN  [ev  |-> <<Ask(detailed)>>,
         exc |-> IF yes THEN "none" ELSE "RuntimeError",
         err |-> IF yes THEN "" ELSE detailed]

\* utils.display_error
display_error(message) == <<Msg(message)>>

----------------------------------------------------------------------------
(* The relational data the application reads (schema of spec section 6) *)

CategoryTable ==
    << [category_id |-> 1, name |-> "Comedy"],
       [category_id |-> 2, name |-> "Drama"] >>

\* in ORDER BY last_name order
ActorTable ==
    << [actor_id |-> 7, last_name |-> "Lee", first_name |-> "Ann"],
       [actor_id |-> 9, last_name |-> "Lee", first_name |-> "Ann"],
       [actor_id |-> 3, last_name |-> "Ray", first_name |-> "Bob"] >>

\* film joined with film_category and film_actor, in ORDER BY category, year order
FilmTable ==
    << [film_id |-> 3, title |-> <<"b">>, description |-> <<"b", "b">>,
        release_year |-> 2006, category |-> "Comedy", rating |-> "PG",
        rental_rate |-> "4.99", length |-> 86,
        actors |-> {3}],
       [film_id |-> 1, title |-> <<"a">>, description |-> <<"b">>,
        release_year |-> 2005, category |-> "Drama", rating |-> "G",
        rental_rate |-> "0.99", length |-> 48,
        actors |-> {7}],
       [film_id |-> 2, title |-> <<"a", "b">>, description |-> <<"a", " ">>,
        release_year |-> 2006, category |-> "Drama", rating |-> "NR",
        rental_rate |-> "2.99", length |-> 50,
        actors |-> {7, 9}] >>

FilmIds == {FilmTable[i].film_id : i \in 1..Len(FilmTable)}

\* the films the database holds
Films == SelectSeq(FilmTable, LAMBDA f : f.film_id \in present)

MapSeq(s, F(_)) == [i \in 1..Len(s) |-> F(s[i])]

RECURSIVE JoinWith(_, _)
JoinWith(s, sep) ==
    IF s = <<>> THEN ""
    ELSE IF Len(s) = 1 THEN s[1] ELSE s[1] \o sep \o JoinWith(Tail(s), sep)

\* SQL LIKE on a text: % matches any run of characters, _ one character
RECURSIVE Like(_, _)
Like(text, pat) ==
    IF pat = <<>> THEN text = <<>>
    ELSE IF Head(pat) = "%"
         THEN Like(text, Tail(pat)) \/ (text # <<>> /\ Like(Tail(text), pat))
         ELSE /\ text # <<>>
              /\ Head(pat) = "_" \/ Head(pat) = Head(text)
              /\ Like(Tail(text), Tail(pat))

\* the pattern strings whose characters are known: wildcard-wrapped typed texts
Patterns == SeqsUpTo(Chars \cup {"%"}, MaxKeyLen + 2)

\* the characters of each such string
PatternOf == [p \in {Join(s) : s \in Patterns} |-> CHOOSE s \in Patterns : Join(s) = p]

\* text LIKE p for a bound string p; a string of other characters holds no
\* wildcard and matches the equal text only
LikeStr(text, p) ==
    IF p \in DOMAIN PatternOf THEN Like(text, PatternOf[p]) ELSE Join(text) = p

\* CASE rating ... END as rating_description
\* a CASE without its ELSE branch yields NULL for any other rating
RatingDescription_no_else(rating) ==
    CASE rating = "G"     -> "General Audiences - All ages admitted"
      [] rating = "PG"    -> "Parental Guidance Suggested - Some material may not be suitable for children"
      [] rating = "PG-13" -> "Parents Strongly Cautioned - Some material may be inappropriate for children under 13"
      [] rating = "R"     -> "Restricted - Under 17 requires accompanying parent or adult guardian"
      [] rating = "NC-17" -> "Adults Only - No one 17 and under admitted"
      [] OTHER            -> "None"

RatingDescription(rating) ==
    CASE rating = "G"     -> "General Audiences - All ages admitted"
      [] rating = "PG"    -> "Parental Guidance Suggested - Some material may not be suitable for children"
      [] rating = "PG-13" -> "Parents Strongly Cautioned - Some material may be inappropriate for children under 13"
      [] rating = "R"     -> "Restricted - Under 17 requires accompanying parent or adult guardian"
      [] rating = "NC-17" -> "Adults Only - No one 17 and under admitted"
      [] OTHER            -> "Not Rated"

\* GROUP_CONCAT(CONCAT(x, ' ', y) SEPARATOR ', ') over the film's actors
ActorNames(f, lastFirst) ==
    JoinWith(MapSeq(SelectSeq(ActorTable, LAMBDA a : a.actor_id \in f.actors),
                    LAMBDA a : IF lastFirst THEN a.last_name \o " " \o a.first_name
                                            ELSE a.first_name \o " " \o a.last_name),
             ", ")

RECURSIVE Distinct(_)
Distinct(s) ==
    IF s = <<>> THEN <<>>
    ELSE LET d == Distinct(SubSeq(s, 1, Len(s) - 1))
             x == s[Len(s)]
         IN  IF \E i \in 1..Len(d) : d[i] = x THEN d ELSE Append(d, x)

\* ORDER BY count DESC: rows by count descending, ties in table order
RECURSIVE InsertDesc(_, _)
InsertDesc(sorted, r) ==
    IF sorted = <<>> THEN <<r>>
    ELSE IF Head(sorted).count >= r.count
         THEN <<Head(sorted)>> \o InsertDesc(Tail(sorted), r)
         ELSE <<r>> \o sorted

RECURSIVE SortDesc(_)
\* the statement without its ORDER BY clause
SortDesc_unsorted(s) == s

SortDesc(s) ==
    IF s = <<>> THEN <<>>
    ELSE InsertDesc(SortDesc(SubSeq(s, 1, Len(s) - 1)), s[Len(s)])

\* ORDER BY year
RECURSIVE InsertAsc(_, _)
InsertAsc(sorted, x) ==
    IF sorted = <<>> THEN <<x>>
    ELSE IF Head(sorted) <= x THEN <<Head(sorted)>> \o InsertAsc(Tail(sorted), x)
         ELSE <<x>> \o sorted

RECURSIVE SortAsc(_)
SortAsc(s) ==
    IF s = <<>> THEN <<>> ELSE InsertAsc(SortAsc(SubSeq(s, 1, Len(s) - 1)), s[Len(s)])

KeywordRow(f) ==
    [title |-> Join(f.title), year |-> f.release_year, category |-> f.category,
     description |-> Join(f.description), actors |-> ActorNames(f, TRUE),
     price |-> f.rental_rate, length |-> f.length,
     rating |-> f.rating, rating_description |-> RatingDescription(f.rating)]

----------------------------------------------------------------------------
(* query.py: the catalog *)

MenuNames ==
    {"category_list", "year_list", "actor_list", "film_by_category_and_year",
     "film_by_actor", "film_by_keyword_both", "film_by_keyword_in_film_title",
     "film_by_keyword_in_film_description", "show_popular_queries"}

\* number of %s in the statement of each case of the match
Placeholders(menu) ==
    CASE menu = "category_list"                       -> 0
      [] menu = "year_list"                           -> 1
      [] menu = "actor_list"                          -> 0
      [] menu = "film_by_category_and_year"           -> 2
      [] menu = "film_by_actor"                       -> 1
      [] menu = "film_by_keyword_both"                -> 2
      [] menu = "film_by_keyword_in_film_title"       -> 1
      [] menu = "film_by_keyword_in_film_description" -> 1
      [] menu = "show_popular_queries"                -> 0

\* the statement of a recognized name
Catalog(menu) == [sql |-> menu, placeholders |-> Placeholders(menu)]

----------------------------------------------------------------------------
(* The engine: rows a statement yields on the data *)

\* the database names the application is configured with
Databases == {"sakila", "rental"}

\* the table the name sakila.popular_query denotes: the logger's table when the
\* current database is sakila; otherwise a table of another schema, which this
\* application has not created
SakilaPopularQuery ==
    IF database = "sakila"
    THEN [exists |-> tableExists, rows |-> store]
    ELSE [exists |-> FALSE, rows |-> <<>>]

PopularRow(r) ==
    ("Query type" :> r.type_query) @@ ("Query text" :> r.text_query)
        @@ ("Frequency" :> r.count)

EngineRows(sql, items) ==
    CASE sql = "category_list" ->
             MapSeq(CategoryTable, LAMBDA c : [Nr |-> c.category_id, category |-> c.name])
      [] sql = "year_list" ->
             MapSeq(SortAsc(Distinct(MapSeq(
                        SelectSeq(Films, LAMBDA f : f.category = items[1]),
                        LAMBDA f : f.release_year))),
                    LAMBDA y : [year |-> y])
      [] sql = "actor_list" ->
             MapSeq(ActorTable, LAMBDA a : [FID |-> a.actor_id, LastName |-> a.last_name,
                                            FirstName |-> a.first_name])
      [] sql = "film_by_category_and_year" ->
             MapSeq(SelectSeq(Films, LAMBDA f : /\ f.category = items[1]
                                                /\ ToString(f.release_year) = items[2]
                                                /\ f.actors # {}),
                    LAMBDA f : [title |-> Join(f.title),
                                description |-> Join(f.description),
                                actors |-> ActorNames(f, FALSE)])
      [] sql = "film_by_actor" ->
             MapSeq(SelectSeq(Films, LAMBDA f : \E a \in f.actors : ToString(a) = items[1]),
                    LAMBDA f : [fid |-> f.film_id, title |-> Join(f.title),
                                year |-> f.release_year, category |-> f.category,
                                description |-> Join(f.description)])
      [] sql = "film_by_keyword_both" ->
             MapSeq(SelectSeq(Films, LAMBDA f : /\ f.actors # {}
                                                /\ \/ LikeStr(f.title, items[1])
                                                   \/ LikeStr(f.description, items[2])),
                    KeywordRow)
      [] sql = "film_by_keyword_in_film_title" ->
             MapSeq(SelectSeq(Films, LAMBDA f : /\ f.actors # {}
                                                /\ LikeStr(f.title, items[1])),
                    KeywordRow)
      [] sql = "film_by_keyword_in_film_description" ->
             MapSeq(SelectSeq(Films, LAMBDA f : /\ f.actors # {}
                                                /\ LikeStr(f.description, items[1])),
                    KeywordRow)
      [] sql = "show_popular_queries" ->
             MapSeq(SortDesc(SakilaPopularQuery.rows), PopularRow)

\* what the cursor binds: nothing when params is falsy
Bound(params) == IF Truthy(params) THEN params.items ELSE <<>>

\* the engine rejects a statement whose placeholders the parameters do not fill,
\* or that reads a relation that does not exist
EngineRejects(query, params) ==
    \/ Len(Bound(params)) # query.placeholders
    \/ query.sql = "show_popular_queries" /\ ~SakilaPopularQuery.exists

----------------------------------------------------------------------------
(* dbmaster.py *)

Result(rows, exc, err, ev) == [rows |-> rows, exc |-> exc, err |-> err, ev |-> ev]

\* the connection check of lines 57-58 left out, with a cursor that passes the
\* statement on
execute_query_unguarded(query, params, fail) ==
    IF Truthy(params) /\ ~IsTuple(params)
    THEN Result(<<>>, "ValueError", "Params must be a tuple.", <<>>)
    ELSE LET ev == <<Stmt(query.sql, params.items)>>
         IN  IF fail \/ ~connected \/ ~cursorOpen \/ EngineRejects(query, params)
             THEN Result(<<>>, "RuntimeError", "Error executing query: engine error", ev)
             ELSE Result(EngineRows(query.sql, Bound(params)), "none", "", ev)

\* DbMaster.execute_query; fail: the engine fails on the statement
execute_query(query, params, fail) ==
    IF ~connected
    THEN Result(<<>>, "RuntimeError", "No database connection.", <<>>)
    ELSE IF Truthy(params) /\ ~IsTuple(params)
    THEN Result(<<>>, "ValueError", "Params must be a tuple.", <<>>)
    ELSE IF ~cursorOpen
    THEN Result(<<>>, "RuntimeError", "Error executing query: Cursor is not connected", <<>>)
    ELSE LET ev == <<Stmt(query.sql, params.items)>>
         IN  IF fail \/ EngineRejects(query, params)
             THEN Result(<<>>, "RuntimeError", "Error executing query: engine error", ev)
             ELSE Result(EngineRows(query.sql, Bound(params)), "none", "", ev)

\* the count of the metadata query is not looked at
check_db_table_always_true(table_name, fail) ==
    LET ev == IF connected /\ cursorOpen
              THEN <<Stmt("check_db_table", <<table_name>>)>> ELSE <<>>
    IN  IF fail \/ ~connected \/ ~cursorOpen
        THEN Result(<<>>, "RuntimeError", "Error checking table existence: engine error",
                    ev \o handle_error_with_recommendation("Database Error", "engine error"))
        ELSE Result(<<TRUE>>, "none", "", ev)

\* DbMaster.check_db_table; rows is <<TRUE>> or <<FALSE>>
check_db_table(table_name, fail) ==
    LET ev == IF connected /\ cursorOpen
              THEN <<Stmt("check_db_table", <<table_name>>)>> ELSE <<>>
    IN  IF fail \/ ~connected \/ ~cursorOpen
        THEN Result(<<>>, "RuntimeError", "Error checking table existence: engine error",
                    ev \o handle_error_with_recommendation("Database Error", "engine error"))
        ELSE Result(<<table_name = "popular_query" /\ tableExists>>, "none", "", ev)

\* CURRENT_TIMESTAMP: the clock ticks with every call of insert_query_log made by itself
Now == nlogs + 1

\* a row as INSERT writes it: count and query_time take their column defaults
NewEntry(type_query, text_query) ==
    [type_query |-> type_query, text_query |-> text_query, count |-> 1, query_time |-> Now]

SameKey(r, type_query, text_query) ==
    r.type_query = type_query /\ r.text_query = text_query

\* a plain INSERT on a table without the unique index
Upsert_plain_insert(rows, type_query, text_query) ==
    Append(rows, NewEntry(type_query, text_query))

\* REPLACE INTO: the duplicate row is written anew with the default count
Upsert_replace(rows, type_query, text_query) ==
    IF \E i \in 1..Len(rows) : SameKey(rows[i], type_query, text_query)
    THEN [i \in 1..Len(rows) |->
             IF SameKey(rows[i], type_query, text_query)
             THEN NewEntry(type_query, text_query)
             ELSE rows[i]]
    ELSE Append(rows, NewEntry(type_query, text_query))

\* INSERT ... ON DUPLICATE KEY UPDATE count = count + 1, under the unique index
Upsert(rows, type_query, text_query) ==
    IF \E i \in 1..Len(rows) : SameKey(rows[i], type_query, text_query)
    THEN [i \in 1..Len(rows) |->
             IF SameKey(rows[i], type_query, text_query)
             THEN [rows[i] EXCEPT !.count = @ + 1]
             ELSE rows[i]]
    ELSE Append(rows, NewEntry(type_query, text_query))

LogResult(rows, exists, exc, err, ev) ==
    [store |-> rows, tableExists |-> exists, exc |-> exc, err |-> err, ev |-> ev]

FailPoints == {"none", "check", "create", "insert"}

\* DbMaster.insert_query_log; failAt: the statement on which the engine fails
insert_query_log(type_query, text_query, failAt) ==
    IF ~connected
    THEN LogResult(store, tableExists, "RuntimeError", "No database connection.", <<>>)
    ELSE
    LET chk == check_db_table("popular_query", failAt = "check")
    IN  IF chk.exc # "none"
        THEN LogResult(store, tableExists, chk.exc, chk.err, chk.ev)
        ELSE IF ~chk.rows[1] /\ failAt = "create"
        THEN LogResult(store, tableExists, "RuntimeError",
                       "Error creating 'popular_query' table: engine error",
                       chk.ev \o <<Stmt("create_table", <<>>)>>
                           \o handle_error_with_recommendation("Database Error", "engine error"))
        ELSE
        LET ev1 == chk.ev \o (IF chk.rows[1] THEN <<>> ELSE <<Stmt("create_table", <<>>)>>)
            ev2 == ev1 \o <<Stmt("insert_query_log", <<type_query, text_query>>)>>
        IN  IF failAt = "insert"
            THEN LogResult(store, TRUE, "RuntimeError",
                           "Error inserting query log: engine error",
                           ev2 \o handle_error_with_recommendation("Database Error", "engine error"))
            ELSE LogResult(Upsert(store, type_query, text_query), TRUE, "none", "", ev2)

\* both releases under one try: a failing cursor.close() skips connection.close()
close_one_try(failCursor, failConn) ==
    LET cursorFails == cursorOpen /\ failCursor
        connFails == connected /\ failConn /\ ~cursorFails
    IN  [cursorOpen |-> cursorFails,
         connected  |-> connected /\ (cursorFails \/ connFails),
         ev |-> <<Release("cursor")>>
                \o (IF cursorFails
                    THEN handle_error_with_recommendation("Cursor Close Error", "engine error")
                    ELSE (IF connected THEN <<Release("connection")>> ELSE <<>>)
                         \o (IF connFails
                             THEN handle_error_with_recommendation(
                                      "Connection Close Error", "engine error")
                             ELSE <<>>))]

\* DbMaster.close; failCursor, failConn: cursor.close(), connection.close() raises.
\* A release that raises leaves its resource as it was.
close(failCursor, failConn) ==
    LET cursorFails == cursorOpen /\ failCursor
        connFails == connected /\ failConn
    IN  [cursorOpen |-> cursorFails,
         connected  |-> connFails,
         ev |-> <<Release("cursor")>>
                \o (IF cursorFails
                    THEN handle_error_with_recommendation("Cursor Close Error", "engine error")
                    ELSE <<>>)
                \o (IF connected THEN <<Release("connection")>> ELSE <<>>)
                \o (IF connFails
                    THEN handle_error_with_recommendation("Connection Close Error",
                                                          "engine error")
                    ELSE <<>>)]

----------------------------------------------------------------------------
(* query.py: get_info_from_db; fail: the engine fails; yes: the answer to
   "Do you want to continue?" *)

NonBlocking(error_type, error_message, yes, ev) ==
    LET h == handle_non_blocking_error(error_type, error_message, yes)
    IN  Result(<<>>, h.exc, h.err, ev \o h.ev)

\* a match whose default case falls back to the category list
get_info_from_db_default(menu, params, fail, yes) ==
    IF Truthy(params) /\ ~IsTuple(params)
    THEN Result(<<>>, "ValueError", "Params should be a tuple or None.", <<>>)
    ELSE IF menu = ""
    THEN NonBlocking("Invalid Input", "Menu cannot be empty or None.", yes, <<>>)
    ELSE LET name == IF menu \in MenuNames THEN menu ELSE "category_list"
             res == execute_query(Catalog(name), OrEmptyTuple(params), fail)
         IN  CASE res.exc = "none"         -> res
               [] res.exc = "RuntimeError" -> NonBlocking("Runtime Error", res.err, yes, res.ev)
               [] OTHER                    -> NonBlocking("Unexpected Error", res.err, yes, res.ev)

get_info_from_db(menu, params, fail, yes) ==
    IF Truthy(params) /\ ~IsTuple(params)
    THEN Result(<<>>, "ValueError", "Params should be a tuple or None.", <<>>)
    ELSE IF menu = ""
    THEN NonBlocking("Invalid Input", "Menu cannot be empty or None.", yes, <<>>)
    ELSE IF menu \notin MenuNames
    THEN NonBlocking("Invalid Query", "Menu '" \o menu \o "' is not recognized.", yes, <<>>)
    ELSE LET res == execute_query(Catalog(menu), OrEmptyTuple(params), fail)
         IN  CASE res.exc = "none"         -> res
               [] res.exc = "RuntimeError" -> NonBlocking("Runtime Error", res.err, yes, res.ev)
               [] OTHER                    -> NonBlocking("Unexpected Error", res.err, yes, res.ev)

----------------------------------------------------------------------------
(* gui.py *)

\* the gui module defines display_record
gui_has_display_record == FALSE

\* most empty submissions of the keyword dialog in one flow
MaxRetries == 1

\* display_table: the selected row as the Treeview hands it back, every value a string
SelectedCategory(r) == [Nr |-> ToString(r.Nr), category |-> r.category]
SelectedYear(r)     == [year |-> ToString(r.year)]
SelectedActor(r)    == [FID |-> ToString(r.FID), LastName |-> r.LastName,
                        FirstName |-> r.FirstName]

NoActor  == [FID |-> "", LastName |-> "", FirstName |-> ""]
EmptyCtx == [flow |-> "none", keyword |-> "", scope |-> "", category |-> "", year |-> "",
             actor |-> NoActor, rows |-> <<>>]

SearchOptions == {"title", "description", "both"}

----------------------------------------------------------------------------
(* utils.py: the flows *)

Key(type_query, text_query) == <<type_query, text_query>>

Count(key) == IF key \in DOMAIN logged THEN logged[key] ELSE 0

\* the history of successful logs after a call with result r
Logged(r, key) ==
    IF r.exc = "none"
    THEN [k \in DOMAIN logged \cup {key} |-> IF k = key THEN Count(k) + 1 ELSE logged[k]]
    ELSE logged

\* gui.display_record(root, movie) followed by db.insert_query_log(type, text)
ShowAndLog(type_query, text_query, failAt) ==
    IF gui_has_display_record
    THEN LET r == insert_query_log(type_query, text_query, failAt)
         IN  [r EXCEPT !.ev = <<Detail, Log(type_query, text_query)>> \o r.ev]
    ELSE LogResult(store, tableExists, "AttributeError",
                   "module 'gui' has no attribute 'display_record'", <<>>)

\* the callback is over with the flow's variables c: control goes back to the main loop
EndCtx(ev, r, c) ==
    /\ pc' = "done"
    /\ trace' = trace \o ev
    /\ ret' = r
    /\ ctx' = c

End(ev, r) == EndCtx(ev, r, ctx)

\* a flow that is over in the callback that started it
EndFlow(flow, ev, r) == EndCtx(ev, r, [ctx EXCEPT !.flow = flow])

\* a table is presented: blocked in display_table
Present(at, ev, title, c) ==
    /\ pc' = at
    /\ trace' = trace \o ev \o <<Table(title)>>
    /\ ret' = "running"
    /\ ctx' = c

\* a table window without grab_set: the main window takes events while it is open
Start_no_grab(at, flow) ==
    /\ pc \in {"menu", "cat_table", "year_table", "actor_table", "pop_table"}
    /\ pc' = at
    /\ ret' = "running"
    /\ ctx' = [ctx EXCEPT !.flow = flow]
    /\ UNCHANGED trace

Start(at, flow) ==
    /\ pc = "menu"
    /\ pc' = at
    /\ ret' = "running"
    /\ ctx' = [ctx EXCEPT !.flow = flow]
    /\ UNCHANGED trace

DbUnchanged == UNCHANGED <<connected, cursorOpen, present, database, sessions, tableExists, store, logged, before, nlogs>>

\* the final step of a search flow with result r of ShowAndLog
Commit(r, key) ==
    /\ store' = r.store
    /\ tableExists' = r.tableExists
    /\ logged' = Logged(r, key)
    /\ UNCHANGED <<connected, cursorOpen, present, database, sessions, before, nlogs>>

(* search_by_keyword *)

\* the scope is not looked at
KeywordMenu_always_both(option) == "film_by_keyword_both"

KeywordMenu(option) ==
    CASE option = "both"        -> "film_by_keyword_both"
      [] option = "title"       -> "film_by_keyword_in_film_title"
      [] option = "description" -> "film_by_keyword_in_film_description"

\* one pattern bound whatever the scope
KeywordParams_single(option, keyword) == PyTuple(<<"%" \o keyword \o "%">>)

KeywordParams(option, keyword) ==
    IF option = "both"
    THEN PyTuple(<<"%" \o keyword \o "%", "%" \o keyword \o "%">>)
    ELSE PyTuple(<<"%" \o keyword \o "%">>)

\* the message literal without its f prefix
NotFoundKeyword_no_fstring(keyword) ==
    "No Movie found matching the keyword: < {keyword} > !"

NotFoundKeyword(keyword) ==
    "No Movie found matching the keyword: < " \o keyword \o " > !"

\* button 1 or key '1': the keyword dialog opens
search_by_keyword == Start("kw_dialog", "keyword") /\ DbUnchanged

\* get_keyword.submit_action with an empty or whitespace-only entry: the dialog stays
submit_empty(text) ==
    /\ pc = "kw_dialog"
    /\ strip(text) = <<>>
    /\ Len(trace) < MaxRetries
    /\ trace' = Append(trace, Msg("Keyword cannot be empty or whitespace only"))
    /\ UNCHANGED <<pc, ctx, ret>>
    /\ DbUnchanged

\* get_keyword.submit_action with a keyword, then search_by_keyword up to its table
submit_action(text, option, fail, yes) ==
    /\ pc = "kw_dialog"
    /\ strip(text) # <<>>
    /\ LET keyword == Join(strip(text))
           g == get_info_from_db(KeywordMenu(option), KeywordParams(option, keyword),
                                 fail, yes)
           c == [ctx EXCEPT !.keyword = keyword, !.scope = option]
       IN  IF g.exc # "none"
           THEN EndCtx(g.ev \o handle_error_with_recommendation(
                                   "An unexpected error occurred:", g.err),
                       "returned", c)
           ELSE IF g.rows # <<>>
           THEN Present("kw_table", g.ev,
                        "Films by keyword '" \o keyword
                            \o "' | >> more Info: <Double-Click> or <Enter>",
                        [c EXCEPT !.rows = g.rows])
           ELSE EndCtx(g.ev \o display_error(NotFoundKeyword(keyword)), "returned", c)
    /\ DbUnchanged

\* the keyword dialog is closed without a submitted keyword
keyword_dialog_closed ==
    /\ pc = "kw_dialog"
    /\ End(display_error("No keyword selected! Try again"), "returned")
    /\ DbUnchanged

\* a row of the films table of the keyword flow is selected
keyword_film_selected(i, failAt) ==
    /\ pc = "kw_table"
    /\ i \in 1..Len(ctx.rows)
    /\ LET r == ShowAndLog("film_by_keyword", ctx.keyword, failAt)
           sel == <<Selected("films", i)>>
       IN  /\ Commit(r, Key("film_by_keyword", ctx.keyword))
           /\ IF r.exc = "none"
              THEN End(sel \o r.ev, "returned")
              ELSE End(sel \o r.ev \o handle_error_with_recommendation(
                                          "An unexpected error occurred:", r.err),
                       "returned")

\* the log is written although no row was selected
keyword_table_closed_logging ==
    /\ pc = "kw_table"
    /\ LET r == insert_query_log("film_by_keyword", ctx.keyword, "none")
       IN  /\ Commit(r, Key("film_by_keyword", ctx.keyword))
           /\ End(r.ev, "returned")

\* the films table of the keyword flow is closed without a selection
keyword_table_closed ==
    /\ pc = "kw_table"
    /\ End(<<>>, "returned")
    /\ DbUnchanged

(* search_by_category_and_year *)

\* button 2: select_category up to its table
search_by_category_and_year(fail, yes) ==
    /\ pc = "menu"
    /\ LET g == get_info_from_db("category_list", PyNone, fail, yes)
       IN  IF g.exc # "none"
           THEN EndFlow("category", g.ev \o handle_error_with_recommendation("Unexpected Error", g.err),
                    "returned")
           ELSE IF g.rows = <<>>
           THEN EndFlow("category", g.ev \o display_error("No categories found!")
                         \o display_error("No category selected! Try again"), "returned")
           ELSE Present("cat_table", g.ev, "Choose a category:",
                        [ctx EXCEPT !.flow = "category", !.rows = g.rows])
    /\ DbUnchanged

\* select_year without its "if not years" test
category_selected_unchecked(i, fail, yes) ==
    /\ pc = "cat_table"
    /\ i \in 1..Len(ctx.rows)
    /\ LET category == SelectedCategory(ctx.rows[i]).category
           g == get_info_from_db("year_list", PyTuple(<<category>>), fail, yes)
           sel == <<Selected("category", i)>>
       IN  IF g.exc # "none"
           THEN End(sel \o g.ev \o handle_error_with_recommendation("Unexpected Error", g.err),
                    "returned")
           ELSE Present("year_table", sel \o g.ev, "Choose a year:",
                        [ctx EXCEPT !.category = category, !.rows = g.rows])
    /\ DbUnchanged

\* a category is selected: select_year up to its table
category_selected(i, fail, yes) ==
    /\ pc = "cat_table"
    /\ i \in 1..Len(ctx.rows)
    /\ LET category == SelectedCategory(ctx.rows[i]).category
           g == get_info_from_db("year_list", PyTuple(<<category>>), fail, yes)
           sel == <<Selected("category", i)>>
       IN  IF g.exc # "none"
           THEN End(sel \o g.ev \o handle_error_with_recommendation("Unexpected Error", g.err),
                    "returned")
           ELSE IF g.rows = <<>>
           THEN EndCtx(sel \o g.ev \o display_error("No years found for category: " \o category)
                            \o display_error("No year selected! Try again"), "returned",
                       [ctx EXCEPT !.category = category])
           ELSE Present("year_table", sel \o g.ev, "Choose a year:",
                        [ctx EXCEPT !.category = category, !.rows = g.rows])
    /\ DbUnchanged

category_table_closed ==
    /\ pc = "cat_table"
    /\ End(display_error("No category selected! Try again"), "returned")
    /\ DbUnchanged

\* a year is selected: the films query up to its table
year_selected(i, fail, yes) ==
    /\ pc = "year_table"
    /\ i \in 1..Len(ctx.rows)
    /\ LET year == SelectedYear(ctx.rows[i]).year
           g == get_info_from_db("film_by_category_and_year",
                                 PyTuple(<<ctx.category, year>>), fail, yes)
           sel == <<Selected("year", i)>>
       IN  IF g.exc # "none"
           THEN End(sel \o g.ev \o handle_error_with_recommendation("Unexpected Error", g.err),
                    "returned")
           ELSE IF g.rows = <<>>
           THEN EndCtx(sel \o g.ev \o display_error("No movies found for category: "
                                             \o ctx.category \o " and year: " \o year),
                       "returned", [ctx EXCEPT !.year = year])
           ELSE Present("cy_table", sel \o g.ev,
                        "Films by category '" \o ctx.category \o "' and year '" \o year
                            \o "' | >> more Info: <Double-Click> or <Enter>",
                        [ctx EXCEPT !.year = year, !.rows = g.rows])
    /\ DbUnchanged

year_table_closed ==
    /\ pc = "year_table"
    /\ End(display_error("No year selected! Try again"), "returned")
    /\ DbUnchanged

\* a row of the films table of the category+year flow is selected
category_film_selected(i, failAt) ==
    /\ pc = "cy_table"
    /\ i \in 1..Len(ctx.rows)
    /\ LET text == ctx.category \o "," \o ctx.year
           r == ShowAndLog("film_by_category_and_year", text, failAt)
           sel == <<Selected("films", i)>>
       IN  /\ Commit(r, Key("film_by_category_and_year", text))
           /\ IF r.exc = "none"
              THEN End(sel \o r.ev, "returned")
              ELSE End(sel \o r.ev
                           \o handle_error_with_recommendation("Unexpected Error", r.err),
                       "returned")

category_films_closed ==
    /\ pc = "cy_table"
    /\ End(<<>>, "returned")
    /\ DbUnchanged

(* search_by_actor: no try block, an exception leaves the flow *)

\* button 3: the actor list up to its table
search_by_actor(fail, yes) ==
    /\ pc = "menu"
    /\ LET g == get_info_from_db("actor_list", PyNone, fail, yes)
       IN  IF g.exc # "none"
           THEN EndFlow("actor", g.ev \o <<Raise(g.exc)>>, g.exc)
           ELSE IF g.rows = <<>>
           THEN EndFlow("actor", g.ev \o display_error("No actors found in the database!"), "returned")
           ELSE Present("actor_table", g.ev, "Choose an Actor:",
                        [ctx EXCEPT !.flow = "actor", !.rows = g.rows])
    /\ DbUnchanged

\* an actor is selected: get_films_by_actor up to the films table
actor_selected(i, fail, yes) ==
    /\ pc = "actor_table"
    /\ i \in 1..Len(ctx.rows)
    /\ LET actor == SelectedActor(ctx.rows[i])
           name == actor.FirstName \o " " \o actor.LastName
           g == get_info_from_db("film_by_actor", PyTuple(<<actor.FID>>), fail, yes)
           sel == <<Selected("actor", i)>>
       IN  IF g.exc # "none"
           THEN End(sel \o g.ev \o <<Raise(g.exc)>>, g.exc)
           ELSE IF g.rows = <<>>
           THEN EndCtx(sel \o g.ev \o display_error("No movies found for the actor: " \o name \o "!"),
                       "returned", [ctx EXCEPT !.actor = actor])
           ELSE Present("actor_films", sel \o g.ev,
                        "Films by Actor: " \o name
                            \o " | >> more Info: <Double-Click> or <Enter>",
                        [ctx EXCEPT !.actor = actor, !.rows = g.rows])
    /\ DbUnchanged

actor_table_closed ==
    /\ pc = "actor_table"
    /\ End(display_error("No actor selected! Try again."), "returned")
    /\ DbUnchanged

\* a row of the films table of the actor flow is selected
actor_film_selected(i, failAt) ==
    /\ pc = "actor_films"
    /\ i \in 1..Len(ctx.rows)
    /\ LET text == ctx.actor.FirstName \o " " \o ctx.actor.LastName
           r == ShowAndLog("film_by_actor", text, failAt)
           sel == <<Selected("films", i)>>
       IN  /\ Commit(r, Key("film_by_actor", text))
           /\ IF r.exc = "none"
              THEN End(sel \o r.ev, "returned")
              ELSE End(sel \o r.ev \o <<Raise(r.exc)>>, r.exc)

actor_films_closed ==
    /\ pc = "actor_films"
    /\ End(display_error("No movie selected!"), "returned")
    /\ DbUnchanged

(* show_popular_queries *)

NoEntriesYet == "There are no entries in the 'Popular Queries' database yet!"

\* button 4 or key '4'
show_popular_queries(failCheck, fail, yes) ==
    /\ pc = "menu"
    /\ LET chk == check_db_table("popular_query", failCheck)
           g == get_info_from_db("show_popular_queries", PyNone, fail, yes)
       IN  IF chk.exc # "none"
           THEN EndFlow("popular", chk.ev \o handle_error("Runtime Error", chk.err), "returned")
           ELSE IF ~chk.rows[1]
           THEN EndFlow("popular", chk.ev \o display_error(NoEntriesYet), "returned")
           ELSE IF g.exc # "none"
           THEN EndFlow("popular", chk.ev \o g.ev \o handle_error("Runtime Error", g.err), "returned")
           ELSE IF g.rows # <<>>
           THEN Present("pop_table", chk.ev \o g.ev,
                        "Popular queries to Database: | >> EXIT: <Double-Click> or <Enter>",
                        [ctx EXCEPT !.flow = "popular", !.rows = g.rows])
           ELSE EndFlow("popular", chk.ev \o g.ev \o display_error(NoEntriesYet), "returned")
    /\ DbUnchanged

\* the popularity table is left, with or without a selected row
popular_table_closed ==
    /\ pc = "pop_table"
    /\ End(<<>>, "returned")
    /\ DbUnchanged

(* exit_program, and main.py *)

\* button 5 or key '5': db.close() then root.quit()
exit_program(failCursor, failConn) ==
    /\ pc = "menu"
    /\ LET c == close(failCursor, failConn)
       IN  /\ connected' = c.connected
           /\ cursorOpen' = c.cursorOpen
           /\ trace' = trace \o c.ev \o <<Quit>>
    /\ pc' = "ended"
    /\ ret' = "returned"
    /\ UNCHANGED <<ctx, present, database, sessions, tableExists, store, logged, before, nlogs>>

\* the main window is closed by the window manager: mainloop returns and main
\* returns after it
main_window_closed ==
    /\ pc = "menu"
    /\ pc' = "ended"
    /\ ret' = "returned"
    /\ UNCHANGED <<trace, ctx>>
    /\ DbUnchanged

StartupOutcomes == {"ok", "connect_rejected", "not_connected", "cursor_fails"}

ExitingProgram ==
    <<Printed("Database connection failed. Exiting program.")>>

\* main up to root.mainloop(): DbMaster.__init__ under
\* initialize_database_connection, then the main window
main(outcome) ==
    /\ pc = "startup"
    /\ CASE outcome = "ok" ->
              /\ connected' = TRUE
              /\ cursorOpen' = TRUE
              /\ pc' = "menu"
              /\ UNCHANGED <<trace, ret>>
         [] outcome = "connect_rejected" ->
              \* connect raises mysql.connector.Error: nothing was opened
              /\ trace' = handle_error_with_recommendation("Database Error", "engine error")
                             \o <<Printed("Database connection error: "
                                          \o "Error connecting to MySQL: engine error")>>
                             \o ExitingProgram
              /\ pc' = "ended"
              /\ ret' = "startup_failed"
              /\ UNCHANGED <<connected, cursorOpen>>
         [] outcome = "cursor_fails" ->
              \* connection.cursor raises mysql.connector.Error: the handler closes
              \* the connection
              /\ trace' = <<Opened("connection"), Release("connection")>>
                             \o handle_error_with_recommendation("Database Error",
                                                                 "engine error")
                             \o <<Printed("Database connection error: "
                                          \o "Error connecting to MySQL: engine error")>>
                             \o ExitingProgram
              /\ pc' = "ended"
              /\ ret' = "startup_failed"
              /\ UNCHANGED <<connected, cursorOpen>>
         [] outcome = "not_connected" ->
              \* the RuntimeError of line 32 is no mysql.connector.Error: the
              \* handler is skipped
              /\ trace' = <<Opened("connection"),
                            Printed("Database connection error: "
                                    \o "Failed to establish a database connection.")>>
                             \o ExitingProgram
              /\ pc' = "ended"
              /\ ret' = "startup_failed"
              /\ UNCHANGED <<connected, cursorOpen>>
    /\ UNCHANGED <<ctx, present, database, sessions, tableExists, store, logged, before, nlogs>>

\* root.mainloop(): the callback has returned, the main window waits for the next event
mainloop ==
    /\ pc = "done"
    /\ pc' = "menu"
    /\ trace' = <<>>
    /\ ret' = "none"
    /\ ctx' = EmptyCtx
    /\ before' = [store |-> store, tableExists |-> tableExists]
    /\ UNCHANGED <<connected, cursorOpen, present, database, sessions, tableExists, store, logged, nlogs>>

\* keys '2' and '3': the bound lambda calls the flow without its root argument
key_without_root(key) ==
    /\ pc = "menu"
    /\ key \in {"2", "3"}
    /\ End(<<Raise("TypeError")>>, "TypeError")
    /\ DbUnchanged

----------------------------------------------------------------------------
(* Calls of the DbMaster and catalog operations by themselves *)

LogKeys == {Key("film_by_keyword", "a"), Key("film_by_actor", "Ann Lee")}

\* the statements and names the operations are called with by themselves: one
\* statement of each arity, the one that reads popular_query, an empty name and
\* an unrecognized name
CalledMenus ==
    {"category_list", "year_list", "film_by_keyword_both", "show_popular_queries"}

CalledNames == CalledMenus \cup {"", "film_by_title"}

ParamValues ==
    {PyNone, PyTuple(<<>>), PyTuple(<<"Drama">>), PyTuple(<<"Drama", "2006">>),
     PyList(<<>>), PyList(<<"Drama">>), PyStr(""), PyStr("Drama"), PyInt(0), PyInt(7)}

Outcome(exc) == IF exc = "none" THEN "returned" ELSE exc

call_insert_query_log(key, failAt) ==
    /\ pc = "menu"
    /\ nlogs < MaxLogs
    /\ failAt = "create" => ~tableExists
    /\ LET r == insert_query_log(key[1], key[2], failAt)
       IN  /\ store' = r.store
           /\ tableExists' = r.tableExists
           /\ logged' = Logged(r, key)
           /\ End(<<Call("insert_query_log", <<key[1], key[2]>>)>> \o r.ev, Outcome(r.exc))
    /\ nlogs' = nlogs + 1
    /\ UNCHANGED <<connected, cursorOpen, present, database, sessions, before>>

call_check_db_table(fail) ==
    /\ pc = "menu"
    /\ LET r == check_db_table("popular_query", fail)
       IN  End(<<Call("check_db_table", <<"popular_query">>)>> \o r.ev, Outcome(r.exc))
    /\ DbUnchanged

\* args: whether the cursor and the connection were open when close was called
call_close(failCursor, failConn) ==
    /\ pc = "menu"
    /\ LET c == close(failCursor, failConn)
       IN  /\ connected' = c.connected
           /\ cursorOpen' = c.cursorOpen
           /\ End(<<Call("close", <<ToString(cursorOpen), ToString(connected)>>)>> \o c.ev,
                  "returned")
    /\ UNCHANGED <<present, database, sessions, tableExists, store, logged, before, nlogs>>

call_execute_query(menu, params, fail) ==
    /\ pc = "menu"
    /\ LET r == execute_query(Catalog(menu), params, fail)
       IN  End(<<Call("execute_query", <<menu, params.type>> \o params.items)>> \o r.ev,
               Outcome(r.exc))
    /\ DbUnchanged

call_get_info_from_db(menu, params, fail, yes) ==
    /\ pc = "menu"
    /\ LET r == get_info_from_db(menu, params, fail, yes)
       IN  End(<<Call("get_info_from_db", <<menu, params.type>> \o params.items)>> \o r.ev,
               Outcome(r.exc))
    /\ DbUnchanged

----------------------------------------------------------------------------
(* The specification *)

Init ==
    /\ pc = "startup"
    /\ connected = FALSE
    /\ cursorOpen = FALSE
    /\ present \in SUBSET FilmIds
    /\ tableExists \in BOOLEAN
    /\ store = <<>>
    /\ logged = [k \in {} |-> 0]
    /\ ctx = EmptyCtx
    /\ trace = <<>>
    /\ ret = "none"
    /\ before = [store |-> store, tableExists |-> tableExists]
    /\ nlogs = 0
    /\ database \in Databases
    /\ database # "sakila" => present = FilmIds
    /\ sessions = <<>>

Next ==
    \/ \E outcome \in StartupOutcomes : main(outcome)
    \/ mainloop
    \/ search_by_keyword
    \/ \E text \in Texts : submit_empty(text)
    \/ \E text \in Texts, option \in SearchOptions, fail, yes \in BOOLEAN :
           submit_action(text, option, fail, yes)
    \/ keyword_dialog_closed
    \/ \E i \in 1..Len(FilmTable), failAt \in FailPoints : keyword_film_selected(i, failAt)
    \/ keyword_table_closed
    \/ \E fail, yes \in BOOLEAN : search_by_category_and_year(fail, yes)
    \/ \E i \in 1..Len(CategoryTable), fail, yes \in BOOLEAN : category_selected(i, fail, yes)
    \/ category_table_closed
    \/ \E i \in 1..Len(FilmTable), fail, yes \in BOOLEAN : year_selected(i, fail, yes)
    \/ year_table_closed
    \/ \E i \in 1..Len(FilmTable), failAt \in FailPoints : category_film_selected(i, failAt)
    \/ category_films_closed
    \/ \E fail, yes \in BOOLEAN : search_by_actor(fail, yes)
    \/ \E i \in 1..Len(ActorTable), fail, yes \in BOOLEAN : actor_selected(i, fail, yes)
    \/ actor_table_closed
    \/ \E i \in 1..Len(FilmTable), failAt \in FailPoints : actor_film_selected(i, failAt)
    \/ actor_films_closed
    \/ \E failCheck, fail, yes \in BOOLEAN : show_popular_queries(failCheck, fail, yes)
    \/ popular_table_closed
    \/ \E failCursor, failConn \in BOOLEAN : exit_program(failCursor, failConn)
    \/ main_window_closed
    \/ \E key \in {"2", "3"} : key_without_root(key)
    \/ \E key \in LogKeys, failAt \in FailPoints : call_insert_query_log(key, failAt)
    \/ \E fail \in BOOLEAN : call_check_db_table(fail)
    \/ \E failCursor, failConn \in BOOLEAN : call_close(failCursor, failConn)
    \/ \E menu \in CalledMenus, params \in ParamValues, fail \in BOOLEAN :
           call_execute_query(menu, params, fail)
    \/ \E menu \in CalledNames, params \in ParamValues, fail, yes \in BOOLEAN :
           call_get_info_from_db(menu, params, fail, yes)

Spec == Init /\ [][Next]_vars

----------------------------------------------------------------------------
(* Two application instances, each with its own connection to one database, *)
(* calling insert_query_log; a step is one statement or one commit          *)

Instances == {"first", "second"}

IdleSession == [at |-> "idle", key |-> Key("", ""), saw |-> FALSE, view |-> <<>>,
                row |-> <<>>, error |-> "none"]

\* another instance has written the row of this key and not committed yet: the
\* engine makes a second writer of the row wait
RowLocked(i, key) ==
    \E j \in Instances \ {i} : sessions[j].at = "upserted" /\ sessions[j].key = key

\* CREATE TABLE IF NOT EXISTS: no error when the table exists by now
CreateTableIfNotExists(exists) == [ok |-> TRUE, exists |-> TRUE]

\* read-then-write: the row is computed from what the transaction read before
UpsertRow_from_read_view(current, view, key) ==
    LET rows == Upsert(view, key[1], key[2])
    IN  rows[CHOOSE n \in 1..Len(rows) : SameKey(rows[n], key[1], key[2])]

\* the row INSERT ... ON DUPLICATE KEY UPDATE writes: a locking statement, it
\* works on the latest committed rows, not on the transaction's read view
UpsertRow(current, view, key) ==
    LET rows == Upsert(current, key[1], key[2])
    IN  rows[CHOOSE n \in 1..Len(rows) : SameKey(rows[n], key[1], key[2])]

\* commit of a written row: it takes the place of the row of its key
WriteRow(rows, row) ==
    IF \E n \in 1..Len(rows) : SameKey(rows[n], row.type_query, row.text_query)
    THEN [n \in 1..Len(rows) |->
             IF SameKey(rows[n], row.type_query, row.text_query) THEN row ELSE rows[n]]
    ELSE Append(rows, row)

RaceUnchanged == UNCHANGED <<pc, connected, cursorOpen, present, ctx, trace, ret, before, database>>

\* insert_query_log up to the answer of check_db_table; the SELECT opens the
\* transaction and fixes its read view
log_check(i, key) ==
    /\ sessions[i].at = "idle"
    /\ nlogs + Cardinality({j \in Instances : sessions[j].at # "idle"}) < MaxLogs
    /\ LET chk == check_db_table("popular_query", FALSE)
       IN  sessions' = [sessions EXCEPT ![i] =
                           [IdleSession EXCEPT !.at = "checked", !.key = key,
                                               !.saw = chk.rows[1], !.view = store]]
    /\ UNCHANGED <<store, tableExists, logged, nlogs>>
    /\ RaceUnchanged

\* the table was not seen: cursor.execute(create_table_query)
log_create(i) ==
    /\ sessions[i].at = "checked"
    /\ ~sessions[i].saw
    /\ LET c == CreateTableIfNotExists(tableExists)
       IN  /\ tableExists' = c.exists
           /\ sessions' = [sessions EXCEPT ![i] =
                               IF c.ok THEN [@ EXCEPT !.at = "created"]
                               ELSE [IdleSession EXCEPT !.error = "create"]]
    /\ UNCHANGED <<store, logged, nlogs>>
    /\ RaceUnchanged

\* connection.commit() after the CREATE TABLE, which the engine committed already
log_create_commit(i) ==
    /\ sessions[i].at = "created"
    /\ sessions' = [sessions EXCEPT ![i].at = "ready"]
    /\ UNCHANGED <<store, tableExists, logged, nlogs>>
    /\ RaceUnchanged

\* cursor.execute(insert_query): waits while another instance holds the row
log_upsert(i) ==
    /\ \/ sessions[i].at = "ready"
       \/ sessions[i].at = "checked" /\ sessions[i].saw
    /\ tableExists
    /\ ~RowLocked(i, sessions[i].key)
    /\ sessions' = [sessions EXCEPT ![i] =
                        [@ EXCEPT !.at = "upserted",
                                  !.row = UpsertRow(store, sessions[i].view,
                                                    sessions[i].key)]]
    /\ UNCHANGED <<store, tableExists, logged, nlogs>>
    /\ RaceUnchanged

\* connection.commit() after the upsert; insert_query_log returns
log_commit(i) ==
    /\ sessions[i].at = "upserted"
    /\ store' = WriteRow(store, sessions[i].row)
    /\ logged' = [k \in DOMAIN logged \cup {sessions[i].key} |->
                      IF k = sessions[i].key THEN Count(k) + 1 ELSE logged[k]]
    /\ nlogs' = nlogs + 1
    /\ sessions' = [sessions EXCEPT ![i] = IdleSession]
    /\ UNCHANGED tableExists
    /\ RaceUnchanged

InitTwo ==
    /\ pc = "menu"
    /\ connected = TRUE
    /\ cursorOpen = TRUE
    /\ present = FilmIds
    /\ tableExists \in BOOLEAN
    /\ store = <<>>
    /\ logged = [k \in {} |-> 0]
    /\ ctx = EmptyCtx
    /\ trace = <<>>
    /\ ret = "none"
    /\ before = [store |-> store, tableExists |-> tableExists]
    /\ nlogs = 0
    /\ database \in Databases
    /\ sessions = [i \in Instances |-> IdleSession]

NextTwo ==
    \/ \E i \in Instances, key \in LogKeys : log_check(i, key)
    \/ \E i \in Instances : log_create(i)
    \/ \E i \in Instances : log_create_commit(i)
    \/ \E i \in Instances : log_upsert(i)
    \/ \E i \in Instances : log_commit(i)

TwoInstances == InitTwo /\ [][NextTwo]_vars

----------------------------------------------------------------------------
(* Properties *)

Events(e) == {n \in 1..Len(trace) : trace[n].ev = e}

Shown(event) == \E n \in 1..Len(trace) : trace[n] = event

Keys(rows) == {Key(rows[i].type_query, rows[i].text_query) : i \in 1..Len(rows)}

Entries(rows, key) == {i \in 1..Len(rows) : SameKey(rows[i], key[1], key[2])}

\* the count of the entry of a key, 0 when there is none
CountIn(rows, key) ==
    IF Entries(rows, key) = {} THEN 0 ELSE rows[CHOOSE i \in Entries(rows, key) : TRUE].count

\* popular_query is as the main loop last saw it
StoreUnchanged == store = before.store /\ tableExists = before.tableExists

\* the statement at position n of the trace ran without an engine failure and yielded no row
ZeroRowQuery(n) ==
    /\ trace[n].ev = "stmt"
    /\ trace[n].name \in MenuNames
    /\ Events("ask") = {}
    /\ Len(trace[n].args) = Placeholders(trace[n].name)
    /\ EngineRows(trace[n].name, trace[n].args) = <<>>

\* a row of the final films table was selected
FilmSelected == \E n \in Events("select") : trace[n].name = "films"

\* the detail view, and after it exactly one log, of the given key
DetailThenOneLog(type_query, text_query) ==
    /\ \E d, l \in 1..Len(trace) :
           d < l /\ trace[d] = Detail /\ trace[l] = Log(type_query, text_query)
    /\ Cardinality(Events("log")) = 1

\* C1: after n successful insert_query_log calls of a pair, starting without an
\* entry for it and interleaved with logs of other pairs, the store holds exactly
\* one entry for the pair and its count is n (no entry when n = 0)
C1_OneEntryWithCountN ==
    \A key \in Keys(store) \cup DOMAIN logged \cup LogKeys :
        IF Count(key) = 0
        THEN Entries(store, key) = {}
        ELSE /\ Cardinality(Entries(store, key)) = 1
             /\ \A i \in Entries(store, key) : store[i].count = Count(key)

C1_Witness ==
    /\ Count(Key("film_by_keyword", "a")) = 2
    /\ Count(Key("film_by_actor", "Ann Lee")) = 1
    /\ Len(store) = 2

\* C2: in every step an existing entry stays, no count decreases, and a count
\* grows by exactly the number of successful logs of its pair in that step,
\* which is 0 or 1
C2_NeverRemovedOnlyIncremented ==
    [][\A key \in Keys(store) \cup Keys(store') \cup LogKeys :
           /\ Entries(store, key) # {} => Entries(store', key) # {}
           /\ CountIn(store', key) >= CountIn(store, key)
           /\ CountIn(store', key) - CountIn(store, key) = Count(key)' - Count(key)
           /\ CountIn(store', key) - CountIn(store, key) \in {0, 1}]_vars

\* an entry of count 2 has survived a failed log attempt
C2_Witness ==
    /\ pc = "done"
    /\ ret = "RuntimeError"
    /\ trace[1] = Call("insert_query_log", <<"film_by_keyword", "a">>)
    /\ CountIn(store, Key("film_by_keyword", "a")) = 2
    /\ StoreUnchanged

\* C3: in the actor flow, after a film of the selected actor is selected, the
\* detail view is shown and then exactly one log is performed, with key
\* ('film_by_actor', "<FirstName> <LastName>")
C3_ActorFlowLogsOnce ==
    (pc = "done" /\ ctx.flow = "actor" /\ FilmSelected)
        => DetailThenOneLog("film_by_actor",
                            ctx.actor.FirstName \o " " \o ctx.actor.LastName)

\* C4: in the keyword flow and the category+year flow, a selected row of the
\* films table gives the detail view and then exactly one log with the flow's
\* key; without a selected row there is no log
C4_KeywordAndCategoryFlowsLogOnce ==
    (pc = "done" /\ ctx.flow \in {"keyword", "category"})
        => IF FilmSelected
           THEN IF ctx.flow = "keyword"
                THEN DetailThenOneLog("film_by_keyword", ctx.keyword)
                ELSE DetailThenOneLog("film_by_category_and_year",
                                      ctx.category \o "," \o ctx.year)
           ELSE Events("log") = {}

\* the keyword flow is over after its query yielded no row
KeywordZeroRows ==
    /\ pc = "done"
    /\ ctx.flow = "keyword"
    /\ \E n \in Events("stmt") : ZeroRowQuery(n)

NothingPresentedNothingLogged ==
    /\ Events("table") = {}
    /\ Events("detail") = {}
    /\ Events("log") = {}
    /\ \A n \in Events("stmt") : trace[n].name \in MenuNames
    /\ StoreUnchanged

\* C5 as claimed: zero rows for keyword k give the message
\* "No Movie found matching the keyword: < k >!", no table, no detail view and
\* an unchanged popularity store
C5_NotFoundMessageAsClaimed ==
    KeywordZeroRows
        => /\ Shown(Msg("No Movie found matching the keyword: < " \o ctx.keyword \o " >!"))
           /\ NothingPresentedNothingLogged

\* C5 amended: zero rows for keyword k give the message
\* "No Movie found matching the keyword: < k > !" (a space before the
\* exclamation mark), no table, no detail view and an unchanged popularity store
C5_NotFoundMessage ==
    KeywordZeroRows
        => /\ trace[Len(trace)]
                  = Msg("No Movie found matching the keyword: < " \o ctx.keyword \o " > !")
           /\ NothingPresentedNothingLogged

\* films exist, none matches the keyword in title or description
C5_Witness ==
    /\ KeywordZeroRows
    /\ present # {}
    /\ \E n \in Events("stmt") : trace[n].name = "film_by_keyword_both"

\* C6: in the category+year flow, zero release years for the selected category c
\* end the flow right after the category selection with the message
\* "No years found for category: c"; no films query and no log statement is issued
C6_NoYearsAborts ==
    \A n \in Events("stmt") :
        (pc = "done" /\ ctx.flow = "category" /\ trace[n].name = "year_list"
            /\ ZeroRowQuery(n))
        => /\ n > 1 /\ trace[n - 1].ev = "select" /\ trace[n - 1].name = "category"
           /\ trace[n].args = <<ctx.category>>
           /\ Len(trace) > n
           /\ trace[n + 1] = Msg("No years found for category: " \o ctx.category)
           /\ \A m \in (n + 1)..Len(trace) : trace[m].ev = "msg"
           /\ \A m \in Events("stmt") : trace[m].name \in {"category_list", "year_list"}
           /\ Events("log") = {}
           /\ StoreUnchanged

\* Comedy is selected and has no film
C6_Witness ==
    /\ pc = "done"
    /\ ctx.flow = "category"
    /\ ctx.category = "Comedy"
    /\ Shown(Msg("No years found for category: Comedy"))
    /\ Events("ask") = {}

Blank(s) == \A i \in 1..Len(s) : s[i] = " "

BlankKeywords == {Join(s) : s \in {t \in Texts : Blank(t)}}

BlankPatterns == {"%" \o k \o "%" : k \in BlankKeywords}

EmptyRejected == Msg("Keyword cannot be empty or whitespace only")

\* C7 as claimed: an empty or whitespace-only keyword aborts the flow with a
\* validation error message; no catalog query and no log statement is issued
C7_EmptyKeywordAbortsAsClaimed ==
    (ctx.flow = "keyword" /\ (Shown(EmptyRejected) \/ (pc = "done" /\ ctx.keyword = "")))
        => /\ pc \in {"kw_dialog", "done"}
           /\ Events("stmt") = {}
           /\ Events("log") = {}
           /\ pc = "done" => trace[Len(trace)].ev = "msg"

\* C7 amended: an empty or whitespace-only submission is rejected with a
\* validation error message and the dialog stays open; closing the dialog
\* without a submitted keyword aborts the flow with a validation error message
\* and without any statement; no catalog query is ever issued for an empty or
\* whitespace-only keyword
C7_EmptyKeywordRejected ==
    ctx.flow = "keyword"
        => /\ pc = "kw_dialog"
                => /\ \A n \in 1..Len(trace) : trace[n] = EmptyRejected
                   /\ ctx.keyword = ""
           /\ (pc = "done" /\ ctx.keyword = "")
                => /\ trace[Len(trace)] = Msg("No keyword selected! Try again")
                   /\ \A n \in 1..(Len(trace) - 1) : trace[n] = EmptyRejected
                   /\ StoreUnchanged
           /\ Events("stmt") # {}
                => /\ ctx.keyword \notin BlankKeywords
                   /\ \A n \in Events("stmt") :
                          trace[n].name \in MenuNames
                              => \A a \in 1..Len(trace[n].args) :
                                     trace[n].args[a] \notin BlankPatterns

\* a whitespace-only submission was rejected, then the dialog was closed
C7_Witness ==
    /\ pc = "done"
    /\ ctx.flow = "keyword"
    /\ trace = <<EmptyRejected, Msg("No keyword selected! Try again")>>

\* get_info_from_db was called by itself, with the name at args[1] and params of
\* the type at args[2]
CalledGetInfo ==
    /\ pc = "done"
    /\ trace # <<>>
    /\ trace[1].ev = "call"
    /\ trace[1].name = "get_info_from_db"

\* C8: for a name that is not one of the nine catalog names, get_info_from_db
\* passes no statement to execute_query, releases nothing and leaves the
\* application in its main loop; with params a tuple or None it reports the error
\* in one dialog and returns, or raises RuntimeError when the user declines to
\* continue
C8_UnknownNameNoStatement ==
    (CalledGetInfo /\ trace[1].args[1] \notin MenuNames)
        => /\ Events("stmt") = {}
           /\ Events("release") = {}
           /\ Events("quit") = {}
           /\ StoreUnchanged
           /\ trace[1].args[2] \in {"tuple", "NoneType"}
                  => /\ Cardinality(Events("ask")) = 1
                     /\ ret \in {"returned", "RuntimeError"}

C8_Witness ==
    /\ CalledGetInfo
    /\ trace[1].args = <<"film_by_title", "tuple", "Drama">>
    /\ ret = "returned"

\* the arity table of the specification, section 4.2
DocumentedArity(menu) ==
    CASE menu \in {"category_list", "actor_list", "show_popular_queries"} -> 0
      [] menu \in {"year_list", "film_by_actor", "film_by_keyword_in_film_title",
                   "film_by_keyword_in_film_description"} -> 1
      [] menu \in {"film_by_category_and_year", "film_by_keyword_both"} -> 2

\* C9: each of the nine names has a statement whose placeholder count is the
\* documented arity, and every catalog statement a flow issues is bound with
\* exactly that many parameters
C9_ArityMatches ==
    /\ \A menu \in MenuNames :
           /\ Catalog(menu).sql # ""
           /\ Catalog(menu).placeholders = DocumentedArity(menu)
    /\ ctx.flow # "none"
           => \A n \in Events("stmt") :
                  trace[n].name \in MenuNames
                      => Len(trace[n].args) = DocumentedArity(trace[n].name)

\* the two-pattern keyword query was accepted and its rows are presented
C9_Witness ==
    /\ pc = "kw_table"
    /\ \E n \in Events("stmt") :
           trace[n].name = "film_by_keyword_both" /\ Len(trace[n].args) = 2

\* C10: for every params value that is not a tuple (a scalar, a list, a string,
\* whatever its value), execute_query raises ValueError or RuntimeError before
\* any statement is passed to the cursor
C10_NonTupleRejected ==
    (pc = "done" /\ trace # <<>> /\ trace[1].ev = "call"
        /\ trace[1].name = "execute_query"
        /\ trace[1].args[2] \in {"list", "str", "int"})
        => /\ ret \in {"ValueError", "RuntimeError"}
           /\ Events("stmt") = {}

\* an operation of DbMaster was called by itself
Called(names) ==
    /\ pc = "done"
    /\ trace # <<>>
    /\ trace[1].ev = "call"
    /\ trace[1].name \in names

StartupFailed == pc = "ended" /\ ret = "startup_failed"

\* C12: when opening the connection at startup fails, every resource that was
\* opened is released afterwards, the failure is reported, and the program ends
\* without a main window or a flow
C12_StartupFailureReleases ==
    StartupFailed
        => /\ \A o \in Events("open") :
                  \E r \in Events("release") : o < r /\ trace[r].name = trace[o].name
           /\ Events("print") # {}
           /\ ctx = EmptyCtx
           /\ Events("table") = {}
           /\ Events("stmt") = {}

\* C13: close() never raises: it attempts the cursor release and then the
\* connection release, the latter also when the former failed; it skips a
\* connection that is already closed; without a failing release both are closed
\* afterwards, and a close() on the closed state leaves it closed and reports
\* nothing
C13_CloseNeverRaises ==
    Called({"close"})
        => LET wasCursor == trace[1].args[1] = "TRUE"
               wasConn == trace[1].args[2] = "TRUE"
           IN  /\ ret = "returned"
               /\ Events("raise") = {}
               /\ trace[2] = Release("cursor")
               /\ wasConn => \E n \in 3..Len(trace) : trace[n] = Release("connection")
               /\ ~wasConn => ~Shown(Release("connection"))
               /\ Events("msg") = {} => ~connected /\ ~cursorOpen
               /\ (~wasCursor /\ ~wasConn)
                      => /\ trace = <<trace[1], Release("cursor")>>
                         /\ ~connected /\ ~cursorOpen
               /\ Events("stmt") = {}
               /\ StoreUnchanged

\* the cursor release failed and the connection was released all the same
C13_Witness ==
    /\ Called({"close"})
    /\ trace[1].args = <<"TRUE", "TRUE">>
    /\ Len(trace) = 4
    /\ trace[3].ev = "msg"
    /\ trace[4] = Release("connection")
    /\ cursorOpen /\ ~connected

\* C14: whenever the application has ended after a successful connect, the
\* cursor/connection close ran, and it ran before the event loop ended
C14_CloseRunsBeforeLoopEnds ==
    (pc = "ended" /\ ~StartupFailed)
        => \E r, q \in 1..Len(trace) :
               r < q /\ trace[r].ev = "release" /\ trace[q] = Quit

\* the engine failed on a catalog query of the running flow
QueryFailed ==
    Shown(Ask("Runtime Error occurred: Error executing query: engine error"
              \o "\nDo you want to continue?"))

\* C15: in each of the four flows, after a catalog query failed in the engine
\* the flow function returns without an exception whatever the user answered,
\* presents no table after the failure and writes no log
C15_QueryFailureAbortsFlow ==
    (pc = "done" /\ ctx.flow \in {"keyword", "category", "actor", "popular"} /\ QueryFailed)
        => /\ ret = "returned"
           /\ Events("raise") = {}
           /\ \A a \in Events("ask"), t \in Events("table") : t < a
           /\ Events("log") = {}

\* C16: in each of the three search flows, when a film row is selected and the
\* engine fails on a statement of the popularity log, the failure is reported
\* and the flow function returns normally
C16_LogFailureSwallowed ==
    [][\A i \in 1..Len(FilmTable), failAt \in FailPoints \ {"none"} :
           (\/ keyword_film_selected(i, failAt)
            \/ category_film_selected(i, failAt)
            \/ actor_film_selected(i, failAt))
               => /\ ret' = "returned"
                  /\ \E n \in 1..Len(trace') : trace'[n].ev = "msg"]_vars

\* the popularity view ran on an open connection
PopularViewed ==
    /\ ctx.flow = "popular"
    /\ pc \in {"pop_table", "done"}
    /\ connected /\ cursorOpen

\* no statement of the popularity view failed in the engine
NoEngineFailure ==
    /\ Events("ask") = {}
    /\ \A n \in Events("msg") :
           trace[n].name = "There are no entries in the 'Popular Queries' database yet!"

\* C17 for the configured database sakila and runs without an engine failure:
\* in the popularity view, an absent table gives the "no entries yet"
\* message without the show_popular_queries statement, an empty table gives the
\* same message after it, and in both cases no table is presented; otherwise
\* every entry of the store is presented; the store is left as it was
C17_PopularityView ==
    PopularViewed
        => /\ ~tableExists
                  => /\ Events("table") = {}
                     /\ \A n \in Events("stmt") : trace[n].name # "show_popular_queries"
                     /\ trace[Len(trace)].ev = "msg"
                     /\ NoEngineFailure
                            => trace = <<Stmt("check_db_table", <<"popular_query">>),
                                         Msg("There are no entries in the 'Popular Queries' database yet!")>>
           /\ (tableExists /\ store = <<>> /\ NoEngineFailure)
                  => trace = <<Stmt("check_db_table", <<"popular_query">>),
                               Stmt("show_popular_queries", <<>>),
                               Msg("There are no entries in the 'Popular Queries' database yet!")>>
           /\ (tableExists /\ store # <<>> /\ NoEngineFailure)
                  => /\ Cardinality(Events("table")) = 1
                     /\ Len(ctx.rows) = Len(store)
                     /\ \A i \in 1..Len(store) :
                            \E j \in 1..Len(ctx.rows) :
                                /\ ctx.rows[j]["Query type"] = store[i].type_query
                                /\ ctx.rows[j]["Query text"] = store[i].text_query
                                /\ ctx.rows[j]["Frequency"] = store[i].count
           /\ StoreUnchanged

\* two entries are presented
C17_Witness ==
    /\ PopularViewed
    /\ pc = "pop_table"
    /\ Len(store) = 2
    /\ Len(ctx.rows) = 2

\* C18: of any two consecutive rows the popularity view presents, the first
\* one's Frequency is greater than or equal to the second one's
C18_OrderedByCountDesc ==
    (ctx.flow = "popular" /\ pc = "pop_table")
        => \A i \in 1..(Len(ctx.rows) - 1) :
               ctx.rows[i]["Frequency"] >= ctx.rows[i + 1]["Frequency"]

\* the entry logged first has the lower count and is presented second
C18_Witness ==
    /\ ctx.flow = "popular"
    /\ pc = "pop_table"
    /\ Len(store) = 2
    /\ store[1].count = 1
    /\ store[2].count = 2
    /\ ctx.rows[1]["Frequency"] = 2
    /\ ctx.rows[2]["Frequency"] = 1

\* C19: a step changes the popularity store or the existence of its table only
\* if it is the final step of a search flow in which a row of the films table
\* was selected, or a call of insert_query_log by itself
C19_OnlyFinalLogChangesStore ==
    [][(store' # store \/ tableExists' # tableExists)
           => \/ /\ pc \in {"kw_table", "cy_table", "actor_films"}
                 /\ \E n \in 1..Len(trace') :
                        trace'[n].ev = "select" /\ trace'[n].name = "films"
              \/ /\ pc = "menu"
                 /\ trace' # <<>>
                 /\ trace'[1].ev = "call"
                 /\ trace'[1].name = "insert_query_log"]_vars

\* the films table of the keyword flow was closed without a selection while the
\* store held an entry
C19_Witness ==
    /\ pc = "done"
    /\ ctx.flow = "keyword"
    /\ Events("table") # {}
    /\ ~FilmSelected
    /\ store # <<>>
    /\ StoreUnchanged

\* C20: when insert_query_log fails, the store is as before the call: no table
\* created, no entry added, no count changed; when it returns normally the
\* table exists and the entry is in the store
C20_LogCommitsOrRollsBackAsUnit ==
    Called({"insert_query_log"})
        => IF ret = "returned"
           THEN /\ tableExists
                /\ Entries(store, Key(trace[1].args[1], trace[1].args[2])) # {}
           ELSE StoreUnchanged

\* the keyword flow got a keyword on an open connection
KeywordSubmitted ==
    /\ ctx.flow = "keyword"
    /\ ctx.keyword # ""
    /\ pc \in {"kw_table", "done"}
    /\ connected /\ cursorOpen

\* the statements of the trace that come from the catalog
CatalogStatements == {n \in Events("stmt") : trace[n].name \in MenuNames}

\* C24: the keyword flow with a non-empty keyword k issues exactly one catalog
\* statement: film_by_keyword_both with (%k%, %k%) for the scope both,
\* film_by_keyword_in_film_title with (%k%) for title and
\* film_by_keyword_in_film_description with (%k%) for description; the
\* parameters reach the cursor as the flow built them
C24_OneQueryByScope ==
    KeywordSubmitted
        => /\ Cardinality(CatalogStatements) = 1
           /\ \A n \in CatalogStatements :
                  LET k == "%" \o ctx.keyword \o "%"
                  IN  /\ ctx.scope = "both"
                          => trace[n] = Stmt("film_by_keyword_both", <<k, k>>)
                      /\ ctx.scope = "title"
                          => trace[n] = Stmt("film_by_keyword_in_film_title", <<k>>)
                      /\ ctx.scope = "description"
                          => trace[n] = Stmt("film_by_keyword_in_film_description", <<k>>)
                      /\ ctx.scope \in SearchOptions

\* a keyword searched in titles only gave a films table
C24_Witness ==
    /\ KeywordSubmitted
    /\ pc = "kw_table"
    /\ ctx.scope = "title"
    /\ ctx.keyword = "a"

\* execute_query raises for this statement in the current state
ExecutionFails(menu, params, fail) ==
    execute_query(Catalog(menu), OrEmptyTuple(params), fail).exc # "none"

\* C30: when the execution fails inside get_info_from_db, the answer "yes" to
\* the dialog makes it return the empty list, and the keyword flow then ends as
\* for zero rows: its "not found" message, no table, normal return; the answer
\* "no" makes get_info_from_db raise RuntimeError to its caller, and the
\* keyword flow ends in its error handler without the "not found" message
C30_FailureContinuedIsZeroRows ==
    [][/\ (pc = "menu" /\ pc' = "done" /\ trace' # <<>>
            /\ trace'[1].name = "get_info_from_db"
            /\ trace'[Len(trace')].ev = "ask")
           => \A menu \in CalledMenus \cap {trace'[1].args[1]}, fail, yes \in BOOLEAN :
              \A params \in {p \in ParamValues :
                                 /\ IsTuple(p) \/ ~Truthy(p)
                                 /\ <<menu, p.type>> \o p.items = trace'[1].args} :
                  (/\ call_get_info_from_db(menu, params, fail, yes)
                   /\ ExecutionFails(menu, params, fail))
                      => LET g == get_info_from_db(menu, params, fail, yes)
                         IN  IF yes
                             THEN g.exc = "none" /\ g.rows = <<>> /\ ret' = "returned"
                             ELSE g.exc = "RuntimeError" /\ ret' = "RuntimeError"
       /\ (pc = "kw_dialog" /\ pc' = "done" /\ ctx'.keyword # "")
           => \A text \in {t \in Texts : Join(strip(t)) = ctx'.keyword},
                 option \in {ctx'.scope}, fail, yes \in BOOLEAN :
                  (/\ submit_action(text, option, fail, yes)
                   /\ ExecutionFails(KeywordMenu(option),
                                     KeywordParams(option, Join(strip(text))), fail))
                      => LET notFound == Msg("No Movie found matching the keyword: < "
                                             \o ctx'.keyword \o " > !")
                         IN  /\ ret' = "returned"
                             /\ \A n \in 1..Len(trace') : trace'[n].ev # "table"
                             /\ \E n \in 1..Len(trace') : trace'[n].ev = "ask"
                             /\ yes <=> trace'[Len(trace')] = notFound]_vars

\* a keyword query failed in the engine, the user continued and the flow ended
\* with its "not found" message
C30_Witness ==
    /\ pc = "done"
    /\ ctx.flow = "keyword"
    /\ connected /\ cursorOpen
    /\ QueryFailed
    /\ Len(trace) = 3
    /\ trace[3] = Msg("No Movie found matching the keyword: < a > !")

\* C27: what a key of the main window does is what its button does: a step of
\* key '2' is a step of search_by_category_and_year and a step of key '3' is a
\* step of search_by_actor (keys '1', '4' and '5' call what their buttons call)
C27_KeysActAsButtons ==
    [][/\ key_without_root("2")
           => \E fail, yes \in BOOLEAN : search_by_category_and_year(fail, yes)
       /\ key_without_root("3")
           => \E fail, yes \in BOOLEAN : search_by_actor(fail, yes)]_vars

\* C23: a search flow that ended without a selected film, on an open
\* connection and without an engine failure, ended at the step that gave
\* nothing (no rows, or a table closed without a selection): the last thing it
\* did was to show a message, and no detail view or log followed
C23_EmptyStepEndsWithMessage ==
    (/\ pc = "done"
     /\ ctx.flow \in {"keyword", "category", "actor"}
     /\ connected /\ cursorOpen
     /\ Events("ask") = {}
     /\ ~FilmSelected)
        => /\ trace # <<>>
           /\ trace[Len(trace)].ev = "msg"
           /\ Events("detail") = {}
           /\ Events("log") = {}

\* the rating description the rows of a films table are to carry
ClaimedRatingDescription ==
    [r \in {"G", "PG", "PG-13", "R", "NC-17"} |->
        CASE r = "G"     -> "General Audiences - All ages admitted"
          [] r = "PG"    -> "Parental Guidance Suggested - Some material may not be suitable for children"
          [] r = "PG-13" -> "Parents Strongly Cautioned - Some material may be inappropriate for children under 13"
          [] r = "R"     -> "Restricted - Under 17 requires accompanying parent or adult guardian"
          [] r = "NC-17" -> "Adults Only - No one 17 and under admitted"]

\* the row of a films table carries the rating description of one of the films
\* of its title
RowDescribesRating(row) ==
    /\ "rating_description" \in DOMAIN row
    /\ \E i \in 1..Len(FilmTable) :
           /\ Join(FilmTable[i].title) = row.title
           /\ row.rating_description =
                  IF FilmTable[i].rating \in DOMAIN ClaimedRatingDescription
                  THEN ClaimedRatingDescription[FilmTable[i].rating]
                  ELSE "Not Rated"

\* the films tables of the flows whose names are in the given set
FilmsTableOf(flows) ==
    \/ "keyword" \in flows /\ pc = "kw_table"
    \/ "category" \in flows /\ pc = "cy_table"
    \/ "actor" \in flows /\ pc = "actor_films"

\* C25: every row of a films table, whichever of the five films statements
\* produced it, carries the rating description of its film: the fixed text for
\* G, PG, PG-13, R and NC-17, "Not Rated" for any other rating
C25_EveryFilmsQueryDescribesRating ==
    FilmsTableOf({"keyword", "category", "actor"})
        => \A i \in 1..Len(ctx.rows) : RowDescribesRating(ctx.rows[i])

\* C25, amended: every row of the films table of the keyword flow, whichever of
\* the three keyword statements produced it, carries the rating description of
\* its film: the fixed text for G, PG, PG-13, R and NC-17, "Not Rated" for any
\* other rating; the rows of film_by_category_and_year and of film_by_actor
\* carry neither a rating nor a rating description
C25_KeywordQueriesDescribeRating ==
    /\ FilmsTableOf({"keyword"})
           => \A i \in 1..Len(ctx.rows) : RowDescribesRating(ctx.rows[i])
    /\ \A r \in DOMAIN ClaimedRatingDescription :
           RatingDescription(r) = ClaimedRatingDescription[r]
    /\ \A r \in {"NR", "", "g", "PG13"} : RatingDescription(r) = "Not Rated"
    /\ FilmsTableOf({"category", "actor"})
           => \A i \in 1..Len(ctx.rows) :
                  {"rating", "rating_description"} \cap DOMAIN ctx.rows[i] = {}

\* the keyword table presents a film rated G and a film of another rating
C25_Witness ==
    /\ pc = "kw_table"
    /\ \E i, j \in 1..Len(ctx.rows) :
           /\ ctx.rows[i].rating = "G"
           /\ ctx.rows[i].rating_description = "General Audiences - All ages admitted"
           /\ ctx.rows[j].rating = "NR"
           /\ ctx.rows[j].rating_description = "Not Rated"

\* C29: a film selected in the actor flow for either of the two actors named
\* Ann Lee (ids 7 and 9) adds one to the count of the one entry
\* (film_by_actor, "Ann Lee"), which the two actors share
C29_SameNameSharesEntry ==
    (/\ pc = "done"
     /\ ctx.flow = "actor"
     /\ FilmSelected
     /\ ctx.actor.FID \in {"7", "9"})
        => LET key == Key("film_by_actor", "Ann Lee")
           IN  /\ Cardinality(Entries(store, key)) = 1
               /\ CountIn(store, key) = CountIn(before.store, key) + 1
               /\ \A k \in Keys(store) \ {key} :
                      CountIn(store, k) = CountIn(before.store, k)

\* a button or key of the main window starts a flow
FlowStarts ==
    \/ search_by_keyword
    \/ \E fail, yes \in BOOLEAN : search_by_category_and_year(fail, yes)
    \/ \E fail, yes \in BOOLEAN : search_by_actor(fail, yes)
    \/ \E failCheck, fail, yes \in BOOLEAN : show_popular_queries(failCheck, fail, yes)
    \/ \E key \in {"2", "3"} : key_without_root(key)

\* the flow that is blocked in the dialog or table of each position
FlowAt ==
    [p \in {"kw_dialog", "kw_table", "cat_table", "year_table", "cy_table",
            "actor_table", "actor_films", "pop_table"} |->
        CASE p \in {"kw_dialog", "kw_table"}             -> "keyword"
          [] p \in {"cat_table", "year_table", "cy_table"} -> "category"
          [] p \in {"actor_table", "actor_films"}         -> "actor"
          [] p = "pop_table"                              -> "popular"]

\* C22: a flow starts only while no flow is active, that is from the main
\* loop with no dialog or table open; while a dialog or table is open the one
\* flow it belongs to is the active one
C22_AtMostOneFlow ==
    [][/\ FlowStarts => (pc = "menu" /\ ctx.flow = "none" /\ trace = <<>>)
       /\ pc \in DOMAIN FlowAt => ctx.flow = FlowAt[pc]
       /\ pc = "menu" => ctx.flow = "none"]_vars

\* the category+year flow is blocked in its second table
C22_Witness ==
    /\ pc = "year_table"
    /\ ctx.flow = "category"
    /\ Cardinality(Events("table")) = 2

\* C26: after every successful insert_query_log, the first log of a pair and
\* every repeat, the query_time of the pair's entry is the time of this log
C26_TimestampIsLastSeen ==
    (Called({"insert_query_log"}) /\ ret = "returned")
        => \A i \in Entries(store, Key(trace[1].args[1], trace[1].args[2])) :
               store[i].query_time = nlogs

\* C28: whatever the configured database name, the popularity view reads the
\* table the logger writes and the existence check inspects: when the view
\* runs on an open connection without an injected failure while that table
\* exists and holds entries, it presents exactly these entries
C28_ViewReadsLoggedTable ==
    [][\A yes \in BOOLEAN :
           (/\ show_popular_queries(FALSE, FALSE, yes)
            /\ connected /\ cursorOpen
            /\ tableExists /\ store # <<>>)
               => /\ pc' = "pop_table"
                  /\ Len(ctx'.rows) = Len(store)
                  /\ \A i \in 1..Len(store) :
                         \E j \in 1..Len(ctx'.rows) :
                             /\ ctx'.rows[j]["Query type"] = store[i].type_query
                             /\ ctx'.rows[j]["Query text"] = store[i].text_query
                             /\ ctx'.rows[j]["Frequency"] = store[i].count]_vars

\* C17: the popularity view on an open connection, without an injected
\* failure: when the popular_query table is absent it shows the "no entries
\* yet" message without issuing the show_popular_queries statement, when the
\* table is empty it shows the same message after the statement, and in both
\* cases it presents no table; otherwise it presents a table of as many rows as
\* the store has entries
C17_PopularityViewAnyDatabase ==
    [][\A yes \in BOOLEAN :
           (show_popular_queries(FALSE, FALSE, yes) /\ connected /\ cursorOpen)
               => LET check == Stmt("check_db_table", <<"popular_query">>)
                      fetch == Stmt("show_popular_queries", <<>>)
                  IN  CASE ~tableExists ->
                               /\ pc' = "done"
                               /\ trace' = <<check, Msg(NoEntriesYet)>>
                        [] tableExists /\ store = <<>> ->
                               /\ pc' = "done"
                               /\ trace' = <<check, fetch, Msg(NoEntriesYet)>>
                        [] OTHER ->
                               /\ pc' = "pop_table"
                               /\ Len(trace') = 3
                               /\ trace'[3].ev = "table"
                               /\ Len(ctx'.rows) = Len(store)]_vars

\* C21: with two instances logging concurrently, in every state of every
\* interleaving of their checks, table creations, upserts and commits the
\* store holds at most one entry per pair, the count of a pair's entry is the
\* number of logs of the pair that returned, and no call has failed
C21_ConcurrentLogsCounted ==
    /\ \A key \in LogKeys :
           /\ Cardinality(Entries(store, key)) <= 1
           /\ CountIn(store, key) = Count(key)
    /\ Keys(store) \subseteq LogKeys
    /\ store # <<>> => tableExists
    /\ \A i \in DOMAIN sessions : sessions[i].error = "none"

\* the second instance found the table absent and read an empty store; since
\* then the first has committed a log of the pair the second is about to log,
\* and has written the row of that pair again without committing yet
C21_Witness ==
    /\ DOMAIN sessions = Instances
    /\ sessions["first"].at = "upserted"
    /\ sessions["second"].at = "ready"
    /\ sessions["first"].key = sessions["second"].key
    /\ ~sessions["second"].saw
    /\ sessions["second"].view = <<>>
    /\ CountIn(store, sessions["first"].key) = 1

====
